---------------------------- MODULE Spec2Model ----------------------------
(***************************************************************************)
(* Model of the frame codec of package frames (src/frames.go).             *)
(*                                                                         *)
(* A Frame is a Go []byte: here a sequence of integers in 0..255, index 1  *)
(* of the sequence being offset 0 of the slice.  A Go function that may    *)
(* panic (index or slice bounds out of range) returns a record             *)
(* [panic, val]; val is meaningful only when panic is FALSE.               *)
(***************************************************************************)
EXTENDS Integers, Sequences, FiniteSets, TLC

VARIABLES
    mem,     \* the two backing arrays: mem.buf the caller's buffer, mem.frm the array a constructor allocates
    fref,    \* the backing array the Frame value points to ("buf" or "frm")
    origin,  \* how the frame was made: "none", "Create" or "Recreate"
    op,      \* the last operation performed
    ret,     \* what the last operation returned: [panic, val]
    argH,    \* header passed to Create
    argD,    \* data passed to Create
    writes   \* number of in-place byte writes made by the caller so far

vars == <<mem, fref, origin, op, ret, argH, argD, writes>>

---------------------------------------------------------------------------
(* Bounds of the model *)

MaxDataLen == 2     \* short data passed to Create: every length 0..MaxDataLen
MaxShortLen == 5    \* raw buffers: every byte string of length 0..MaxShortLen over BufBytes
MaxWrites == 1      \* in-place writes the caller makes to one frame or buffer

---------------------------------------------------------------------------
(* Bytes *)

PlusSign == 43      \* '+'
HashSign == 35      \* '#'
UpperA == 65        \* 'A'
UpperZ == 90        \* 'Z'
Digit0 == 48        \* '0'
Digit9 == 57        \* '9'

ByteMod == 256

ToByte(n) == n % ByteMod

Bit(a, k) == (a \div (2 ^ k)) % 2

\* Go's ^ on two bytes
Xor(a, b) ==
    LET x(k) == ((Bit(a, k) + Bit(b, k)) % 2) * (2 ^ k)
    IN  x(0) + x(1) + x(2) + x(3) + x(4) + x(5) + x(6) + x(7)

Min(a, b) == IF a < b THEN a ELSE b

---------------------------------------------------------------------------
(* Results of Go calls *)

Ok(v) == [panic |-> FALSE, val |-> v]

\* a run-time panic; v is a placeholder of the function's result type
Panics(v) == [panic |-> TRUE, val |-> v]

\* make(Frame, n): n zero bytes
Make(n) == [i \in 1..n |-> 0]

\* copy(dst[lo:hi], src): copies min(hi-lo, len(src)) bytes
Copy(dst, lo, hi, src) ==
    LET n == Min(hi - lo, Len(src))
    IN  [i \in 1..Len(dst) |-> IF i > lo /\ i <= lo + n THEN src[i - lo] ELSE dst[i]]

\* f[i] = v, i a Go offset
Store(f, i, v) == [f EXCEPT ![i + 1] = v]

---------------------------------------------------------------------------
(* The codec, src/frames.go *)

\* func (f Frame) Header() []byte
Header(f) ==
    IF Len(f) < 2 THEN Panics(<<>>) ELSE Ok(SubSeq(f, 1, 2))

\* func (f Frame) LenData() int
LenData(f) ==
    IF Len(f) < 3 THEN Panics(0) ELSE Ok(f[3])

\* Data with the slice starting at the plus sign
DataFromPlus(f) ==
    IF Header(f).panic THEN Panics(<<>>)
    ELSE LET begin == Len(Header(f).val) + 1
         IN  IF LenData(f).panic THEN Panics(<<>>)
             ELSE LET end == begin + LenData(f).val
                  IN  IF end > Len(f) THEN Panics(<<>>)
                      ELSE Ok(SubSeq(f, begin + 1, end))

\* func (f Frame) Data() []byte
Data(f) ==
    IF Header(f).panic THEN Panics(<<>>)
    ELSE LET headerLength == Len(Header(f).val)
             begin == headerLength + 2
         IN  IF LenData(f).panic THEN Panics(<<>>)
             ELSE LET end == begin + LenData(f).val
                  IN  IF end > Len(f) THEN Panics(<<>>)
                      ELSE Ok(SubSeq(f, begin + 1, end))

\* func (f Frame) Checksum() byte
Checksum(f) ==
    IF Len(f) < 1 THEN Panics(0) ELSE Ok(f[Len(f)])

RECURSIVE ChecksumLoop(_, _, _)
\* for i := lo; i < hi; i++ { crc ^= frame[i] }: what the iterations lo..hi-1
\* fold into crc.  XOR is associative, so the iterations are grouped in two
\* halves, which keeps the evaluation shallow on long frames.
ChecksumLoop(frame, lo, hi) ==
    IF lo >= hi THEN 0
    ELSE IF lo + 1 = hi THEN frame[lo + 1]
    ELSE LET mid == (lo + hi) \div 2
         IN  Xor(ChecksumLoop(frame, lo, mid), ChecksumLoop(frame, mid, hi))

\* a | b on two bytes
Or(a, b) ==
    LET x(k) == (IF Bit(a, k) + Bit(b, k) > 0 THEN 1 ELSE 0) * (2 ^ k)
    IN  x(0) + x(1) + x(2) + x(3) + x(4) + x(5) + x(6) + x(7)

RECURSIVE OrLoop(_, _, _)
OrLoop(frame, lo, hi) ==
    IF lo >= hi THEN 0
    ELSE IF lo + 1 = hi THEN frame[lo + 1]
    ELSE LET mid == (lo + hi) \div 2
         IN  Or(OrLoop(frame, lo, mid), OrLoop(frame, mid, hi))

\* CalculateChecksum with crc |= frame[i] in the loop
CalculateChecksumOr(frame) ==
    IF Len(frame) < 1 THEN Panics(0)
    ELSE Ok(Or(frame[1], OrLoop(frame, 1, Len(frame) - 1)))

\* func CalculateChecksum(frame Frame) (crc byte)
CalculateChecksum(frame) ==
    IF Len(frame) < 1 THEN Panics(0)
    ELSE Ok(Xor(frame[1], ChecksumLoop(frame, 1, Len(frame) - 1)))

\* Create writing the length as an ASCII digit, '0' + len(data)
CreateAsciiLength(header, data) ==
    LET n  == Len(header) + 1 + 1 + Len(data) + 2
        f0 == Make(n)
        f1 == Copy(f0, 0, 2, header)
        f2 == Store(f1, Len(header), ToByte(Digit0 + Len(data)))
        f3 == Store(f2, Len(header) + 1, PlusSign)
        f4 == Copy(f3, Len(header) + 2, n - 2, data)
        f5 == Store(f4, n - 2, HashSign)
    IN  Store(f5, n - 1, CalculateChecksum(f5).val)

\* func Create(header [2]byte, data []byte) (frame Frame)
Create(header, data) ==
    LET n  == Len(header) + 1 + 1 + Len(data) + 2
        f0 == Make(n)
        f1 == Copy(f0, 0, 2, header)
        f2 == Store(f1, Len(header), ToByte(Len(data)))
        f3 == Store(f2, Len(header) + 1, PlusSign)
        f4 == Copy(f3, Len(header) + 2, n - 2, data)
        f5 == Store(f4, n - 2, HashSign)
    IN  Store(f5, n - 1, CalculateChecksum(f5).val)

\* func Assemble(header [2]byte, length byte, data []byte, checksum byte) (frame Frame)
Assemble(header, length, data, checksum) ==
    LET n  == Len(header) + 1 + 1 + Len(data) + 2
        f0 == Make(n)
        f1 == Copy(f0, 0, 2, header)
        f2 == Store(f1, Len(header), length)
        f3 == Store(f2, Len(header) + 1, PlusSign)
        f4 == Copy(f3, Len(header) + 2, n - 2, data)
        f5 == Store(f4, n - 2, HashSign)
    IN  Store(f5, n - 1, checksum)

\* Recreate returning buf itself, Frame(buf), with no copy
RecreateAlias(m, b) == [mem |-> m, ref |-> b]

\* func Recreate(buf []byte) (frame Frame): make a new array, copy buf into it.
\* m is the memory, b the array buf points to; the result is the memory after
\* the call and the array the returned Frame points to.
Recreate(m, b) ==
    LET frame == Copy(Make(Len(m[b])), 0, Len(m[b]), m[b])
    IN  [mem |-> [m EXCEPT !.frm = frame], ref |-> "frm"]

\* valid1 / valid2 of Verify
HeaderByteValid(c) ==
    (c > UpperA /\ c < UpperZ) \/ (c > Digit0 /\ c < Digit9)

\* Verify without the check of the hash sign
VerifyNoHash(frame) ==
    IF Len(frame) < 1 THEN Panics(FALSE)
    ELSE IF ~HeaderByteValid(frame[1]) THEN Ok(FALSE)
    ELSE IF Len(frame) < 2 THEN Panics(FALSE)
    ELSE IF ~HeaderByteValid(frame[2]) THEN Ok(FALSE)
    ELSE IF Len(frame) < 3 THEN Panics(FALSE)
    ELSE IF frame[3] # ToByte(LenData(frame).val) THEN Ok(FALSE)
    ELSE IF Len(frame) < 4 THEN Panics(FALSE)
    ELSE IF frame[4] # PlusSign THEN Ok(FALSE)
    ELSE Ok(CalculateChecksum(frame).val = Checksum(frame).val)

\* Verify without the check of the header bytes
VerifyNoHeader(frame) ==
    IF Len(frame) < 3 THEN Panics(FALSE)
    ELSE IF frame[3] # ToByte(LenData(frame).val) THEN Ok(FALSE)
    ELSE IF Len(frame) < 4 THEN Panics(FALSE)
    ELSE IF frame[4] # PlusSign THEN Ok(FALSE)
    ELSE IF frame[Len(frame) - 1] # HashSign THEN Ok(FALSE)
    ELSE Ok(CalculateChecksum(frame).val = Checksum(frame).val)

\* func Verify(frame Frame) bool
Verify(frame) ==
    IF Len(frame) < 1 THEN Panics(FALSE)
    ELSE IF ~HeaderByteValid(frame[1]) THEN Ok(FALSE)
    ELSE IF Len(frame) < 2 THEN Panics(FALSE)
    ELSE IF ~HeaderByteValid(frame[2]) THEN Ok(FALSE)
    ELSE IF Len(frame) < 3 THEN Panics(FALSE)
    ELSE IF frame[3] # ToByte(LenData(frame).val) THEN Ok(FALSE)
    ELSE IF Len(frame) < 4 THEN Panics(FALSE)
    ELSE IF frame[4] # PlusSign THEN Ok(FALSE)
    ELSE IF frame[Len(frame) - 1] # HashSign THEN Ok(FALSE)
    ELSE Ok(CalculateChecksum(frame).val = Checksum(frame).val)

---------------------------------------------------------------------------
(* State *)

\* the bytes of the current Frame value
Frame == mem[fref]

Init ==
    /\ mem = [buf |-> <<>>, frm |-> <<>>]
    /\ fref = "frm"
    /\ origin = "none"
    /\ op = "init"
    /\ ret = Ok(0)
    /\ argH = <<>>
    /\ argD = <<>>
    /\ writes = 0


---------------------------------------------------------------------------
(* Inputs *)

\* every sequence over S of length 0..n
SeqsUpTo(S, n) == UNION {[1..k -> S] : k \in 0..n}

\* header bytes: the bounds of both accepted ranges, bytes inside them, bytes outside them
HeaderBytes == {UpperA, 66, 68, 76, UpperZ, Digit0, 53, Digit9, 97, 0}

Headers == {<<a, b>> : a \in HeaderBytes, b \in HeaderBytes}

\* data bytes: both delimiters and a letter
DataBytes == {HashSign, PlusSign, UpperA}

\* data whose length reaches and passes what one byte holds
LongLens == {255, 256, 257}

LongDatas == UNION {[1..len -> {UpperA}] : len \in LongLens}

Datas == SeqsUpTo(DataBytes, MaxDataLen) \cup LongDatas

\* bytes of short raw buffers: 'B', 'J' and both delimiters
BufBytes == {66, 74, HashSign, PlusSign}

ShortBufs == SeqsUpTo(BufBytes, MaxShortLen)

\* length bytes given to Assemble, whatever the data
LengthBytes == {0, 1, 2, 3, 200}

AssembleHeaders == {<<77, 84>>, <<66, 53>>, <<UpperA, 66>>}

\* frames laid out by Assemble with a free length byte, and a checksum that
\* is either zero or the one CalculateChecksum gives for the bytes present
AssembledBufs ==
    LET sealed(f) == Store(f, Len(f) - 1, CalculateChecksum(f).val)
        raw == {Assemble(h, l, d, 0) :
                   h \in AssembleHeaders, l \in LengthBytes,
                   d \in SeqsUpTo(DataBytes, MaxDataLen)}
    IN  raw \cup {sealed(f) : f \in raw}

\* frames of TestVerify
TestFrames ==
    { <<76, 68, 0, 43, 35, 0>>,
      <<76, 68, 1, 43, 65, 35, 64>>,
      <<76, 68, 4, 43, 116, 101, 115, 116, 35, 18>>,
      <<77, 84, 5, 43, 100, 111, 110, 100, 117, 35, 96>>,
      <<77, 49, 5, 43, 100, 105, 103, 105, 116, 35, 6>>,
      <<120, 100>>,
      <<77, 84, 6, 43, 100, 111, 110, 100, 117, 35, 99>> }

\* every prefix of a test frame: a read cut short by the transport
Prefixes(S) == UNION {{SubSeq(f, 1, k) : k \in 0..Min(5, Len(f))} : f \in S}

\* headers with one byte next to an accepted range ('@', '[', '/', ':'),
\* a lowercase letter or a control byte
OutsideHeaders ==
    {<<64, 66>>, <<66, 91>>, <<47, 53>>, <<53, 58>>, <<66, 98>>, <<1, 66>>}

\* frames that are well formed but for such a header
OutsideHeaderBufs ==
    {Create(h, d) : h \in OutsideHeaders, d \in SeqsUpTo(DataBytes, MaxDataLen)}

RawBufs ==
    ShortBufs \cup AssembledBufs \cup TestFrames \cup Prefixes(TestFrames)
    \cup OutsideHeaderBufs

---------------------------------------------------------------------------
(* Operations *)

\* frame := Create(h, d)
CreateStep(h, d) ==
    /\ origin = "none"
    /\ op = "init"
    /\ mem' = [mem EXCEPT !.frm = Create(h, d)]
    /\ fref' = "frm"
    /\ origin' = "Create"
    /\ op' = "Create"
    /\ ret' = Ok(Create(h, d))
    /\ argH' = h
    /\ argD' = d
    /\ UNCHANGED writes

\* the transport hands over a raw byte buffer
ReceiveStep(b) ==
    /\ origin = "none"
    /\ op = "init"
    /\ mem' = [mem EXCEPT !.buf = b]
    /\ op' = "Receive"
    /\ UNCHANGED <<fref, origin, ret, argH, argD, writes>>

CallCreate == \E h \in Headers, d \in Datas : CreateStep(h, d)

Receive == \E b \in RawBufs : ReceiveStep(b)

\* frame := Recreate(buf)
CallRecreate ==
    /\ op = "Receive"
    /\ mem' = Recreate(mem, "buf").mem
    /\ fref' = Recreate(mem, "buf").ref
    /\ origin' = "Recreate"
    /\ op' = "Recreate"
    /\ ret' = Ok(Recreate(mem, "buf").mem[Recreate(mem, "buf").ref])
    /\ UNCHANGED <<argH, argD, writes>>

\* a call of a function that only reads the frame
ReadCall(name, result) ==
    /\ origin # "none"
    /\ op' = name
    /\ ret' = result
    /\ UNCHANGED <<mem, fref, origin, argH, argD, writes>>

CallVerify == ReadCall("Verify", Verify(Frame))

CallHeader == ReadCall("Header", Header(Frame))

CallLenData == ReadCall("LenData", LenData(Frame))

CallData == ReadCall("Data", Data(Frame))

CallChecksum == ReadCall("Checksum", Checksum(Frame))

CallCalculateChecksum == ReadCall("CalculateChecksum", CalculateChecksum(Frame))

Next ==
    \/ CallCreate
    \/ Receive
    \/ CallRecreate
    \/ CallVerify
    \/ CallHeader
    \/ CallLenData
    \/ CallData
    \/ CallChecksum
    \/ CallCalculateChecksum

Spec == Init /\ [][Next]_vars

---------------------------------------------------------------------------
(* Frames written to in place after they were built *)

\* headers "LD" and "12"
TamperHeaders == {<<76, 68>>, <<49, 50>>}

TamperDatas == SeqsUpTo({UpperA, HashSign}, MaxDataLen)

\* raw buffers: frames Verify accepts (one of 4 bytes, one whose length byte
\* is not the length of its data), frames it rejects, a 2-byte buffer
TamperBufs ==
    { <<66, 74, 35, 43>>,
      <<76, 68, 0, 43, 35, 0>>,
      <<76, 68, 1, 43, 65, 35, 64>>,
      <<77, 84, 2, 43, 65, 35, 83>>,
      <<76, 68, 1, 43, 65, 35, 0>>,
      <<120, 100>> }

\* values a byte b is overwritten with: b with one bit flipped, or a delimiter
WriteValues(b) == ({Xor(b, 2 ^ k) : k \in 0..7} \cup {PlusSign, HashSign}) \ {b}

\* frame[len(frame)-1] = CalculateChecksum(frame), as Create does
Sealed(f) == Store(f, Len(f) - 1, CalculateChecksum(f).val)

TamperCreate == \E h \in TamperHeaders, d \in TamperDatas : CreateStep(h, d)

TamperReceive == \E b \in TamperBufs : ReceiveStep(b)

\* frame[i] = v by whoever holds the Frame
WriteFrame ==
    /\ origin # "none"
    /\ writes < MaxWrites
    /\ \E i \in 1..Len(Frame) : \E v \in WriteValues(Frame[i]) :
          /\ mem' = [mem EXCEPT ![fref] = Store(Frame, i - 1, v)]
          /\ ret' = Ok(v)
    /\ op' = "WriteFrame"
    /\ writes' = writes + 1
    /\ UNCHANGED <<fref, origin, argH, argD>>

\* buf[i] = v by the caller of Recreate, after the call
WriteBuf ==
    /\ origin = "Recreate"
    /\ writes < MaxWrites
    /\ \E i \in 1..Len(mem.buf) : \E v \in WriteValues(mem.buf[i]) :
          /\ mem' = [mem EXCEPT !.buf = Store(mem.buf, i - 1, v)]
          /\ ret' = Ok(v)
    /\ op' = "WriteBuf"
    /\ writes' = writes + 1
    /\ UNCHANGED <<fref, origin, argH, argD>>

\* after a write, the checksum byte is recomputed over the bytes now present
Reseal ==
    /\ op = "WriteFrame"
    /\ mem' = [mem EXCEPT ![fref] = Sealed(Frame)]
    /\ op' = "Reseal"
    /\ ret' = CalculateChecksum(Frame)
    /\ UNCHANGED <<fref, origin, argH, argD, writes>>

NextTamper ==
    \/ TamperCreate
    \/ TamperReceive
    \/ CallRecreate
    \/ WriteFrame
    \/ WriteBuf
    \/ Reseal
    \/ CallVerify

SpecTamper == Init /\ [][NextTamper]_vars

---------------------------------------------------------------------------
(* Properties of the codec, checked under Spec *)

\* the header alphabet as documented: 'A'..'Z' or '0'..'9', bounds included
DocHeaderByte(c) ==
    (c >= UpperA /\ c <= UpperZ) \/ (c >= Digit0 /\ c <= Digit9)

\* the frame is still the one Create returned for argH and argD
FreshlyCreated == origin = "Create" /\ writes = 0

\* C1: for every header of two uppercase letters or digits (bounds included)
\* and every data of 0..255 bytes, Verify(Create(h, d)) returns true.
C1_VerifyAcceptsCreated ==
    (/\ op = "Verify"
     /\ FreshlyCreated
     /\ DocHeaderByte(argH[1]) /\ DocHeaderByte(argH[2])
     /\ Len(argD) <= 255)
    => (~ret.panic /\ ret.val = TRUE)

\* C2: Verify returns false, without panicking, for every buffer of length
\* 0..5, whatever its bytes.
C2_ShortBufferRejected ==
    (op = "Verify" /\ Len(Frame) <= 5)
    => (~ret.panic /\ ret.val = FALSE)

\* C3: Verify returns false for every frame whose total length differs from
\* 6 plus the value of its length byte (offset 2); stated of the frames
\* Recreate wraps, of 6 bytes or more.
C3_LengthMismatchRejected ==
    (/\ origin = "Recreate"
     /\ op = "Verify"
     /\ Len(Frame) >= 6
     /\ Len(Frame) # 6 + Frame[3])
    => (~ret.panic /\ ret.val = FALSE)

\* the bytes lying between offset 3 and offset len(f)-2
Between(f) == SubSeq(f, 5, Len(f) - 2)

\* C4: whenever Verify is true of a frame obtained by Recreate, Header,
\* LenData, Data and Checksum succeed without an out-of-bounds failure, and
\* Data is exactly the bytes between the '+' at offset 3 and the '#' at
\* offset len(f)-2.
C4_VerifiedAccessorsSafe ==
    (/\ origin = "Recreate"
     /\ op \in {"Header", "LenData", "Data", "Checksum"}
     /\ Verify(Frame) = Ok(TRUE))
    => (~ret.panic /\ (op = "Data" => ret.val = Between(Frame)))

\* C5: Create called with data longer than 255 bytes surfaces a failure to
\* its caller; it never returns a frame whose length byte is len(data)
\* wrapped modulo 256.
C5_OverlongDataFails ==
    (op = "Create" /\ Len(argD) > 255) => ret.panic

\* C6: for every header h (any bytes) and data d of 0..255 bytes, the frame
\* f = Create(h, d) has Header(f) = h, Data(f) = d, LenData(f) = len(d) and
\* Checksum(f) = CalculateChecksum(f).
C6_CreateRoundTrip ==
    (FreshlyCreated /\ Len(argD) <= 255)
    => /\ op = "Header" => ret = Ok(argH)
       /\ op = "Data" => ret = Ok(argD)
       /\ op = "LenData" => ret = Ok(Len(argD))
       /\ op = "Checksum" => (~ret.panic /\ ret = CalculateChecksum(Frame))

C6_Witness ==
    /\ FreshlyCreated
    /\ op = "Data"
    /\ Len(argD) = 255
    /\ argH = <<97, 0>>
    /\ ret = Ok(argD)

\* bit k of the XOR of all bytes of s: the parity of the bytes having it set
XorAllBit(s, k) == Cardinality({i \in 1..Len(s) : Bit(s[i], k) = 1}) % 2

\* the XOR of all bytes of s
XorAll(s) ==
    XorAllBit(s, 0) + 2 * XorAllBit(s, 1) + 4 * XorAllBit(s, 2)
    + 8 * XorAllBit(s, 3) + 16 * XorAllBit(s, 4) + 32 * XorAllBit(s, 5)
    + 64 * XorAllBit(s, 6) + 128 * XorAllBit(s, 7)

---------------------------------------------------------------------------
(* Properties of frames written to in place, checked under SpecTamper *)

\* g is f with the byte at offset i, and no other, given another value
ChangedOnlyAt(f, g, i) ==
    /\ Len(g) = Len(f)
    /\ i + 1 \in 1..Len(f)
    /\ g[i + 1] # f[i + 1]
    /\ \A j \in 1..Len(f) : j # i + 1 => g[j] = f[j]

\* offsets of the data bytes: after the '+' at 3, before the '#' at len-2
DataOffsets(f) == 4..(Len(f) - 3)

\* offsets of the two delimiters
DelimiterOffsets(f) == {3, Len(f) - 2}

\* a delimiter of f does not hold its sign
DelimiterAltered(f) ==
    f[4] # PlusSign \/ f[Len(f) - 1] # HashSign

\* C8: given a frame Verify accepts, giving any single data byte another
\* value (in particular flipping one bit of it), every other byte left as it
\* is, yields a frame whose CalculateChecksum differs from the stored
\* checksum and that Verify rejects.
C8_DataCorruptionDetected ==
    [][(/\ op' = "WriteFrame"
        /\ Verify(Frame) = Ok(TRUE)
        /\ \E i \in DataOffsets(Frame) : ChangedOnlyAt(Frame, Frame', i))
       => /\ ~CalculateChecksum(Frame').panic
          /\ CalculateChecksum(Frame').val # Checksum(Frame').val
          /\ Verify(Frame') = Ok(FALSE)]_vars

C8_Witness ==
    /\ op = "Verify"
    /\ FALSE = ret.panic /\ ret.val = FALSE
    /\ origin = "Create"
    /\ writes = 1
    /\ Len(argD) = 2
    /\ Verify(Create(argH, argD)) = Ok(TRUE)
    /\ ChangedOnlyAt(Create(argH, argD), Frame, 5)
    /\ Frame[6] = Xor(argD[2], 128)

C10_RecreateCopies ==
    [][/\ op' = "Recreate"
            => /\ Frame' = mem.buf
               /\ Len(Frame') = Len(mem.buf)
               /\ ret' = Ok(mem.buf)
               /\ mem'.buf = mem.buf
       /\ op' = "WriteBuf"
            => /\ mem'.buf # mem.buf
               /\ Frame' = Frame
       /\ (op' = "WriteFrame" /\ origin = "Recreate")
            => /\ Frame' # Frame
               /\ mem'.buf = mem.buf]_vars

C10_Witness ==
    /\ op = "WriteBuf"
    /\ origin = "Recreate"
    /\ Frame = <<76, 68, 1, 43, 65, 35, 0>>
    /\ mem.buf = <<76, 68, 1, 43, 65, 35, 64>>
    /\ Verify(Frame) = Ok(FALSE)

---------------------------------------------------------------------------
(* Further properties of the codec, checked under Spec *)

\* f is laid out as a frame but for its header: length byte, both
\* delimiters and checksum are right for the bytes present
WellFormedBody(f) ==
    /\ Len(f) = 6 + f[3]
    /\ f[4] = PlusSign
    /\ f[Len(f) - 1] = HashSign
    /\ f[Len(f)] = XorAll(SubSeq(f, 1, Len(f) - 1))

\* C11: Verify returns false for every frame of 6 bytes or more whose byte
\* at offset 0 or at offset 1 is neither an uppercase letter nor a digit,
\* also when the rest of the frame is well formed with a matching checksum.
C11_BadHeaderRejected ==
    (/\ op = "Verify"
     /\ Len(Frame) >= 6
     /\ (~DocHeaderByte(Frame[1]) \/ ~DocHeaderByte(Frame[2])))
    => ret = Ok(FALSE)

C11_Witness ==
    /\ op = "Verify"
    /\ origin = "Recreate"
    /\ Frame[1] = 66
    /\ Frame[2] = 98
    /\ Len(Frame) = 7
    /\ WellFormedBody(Frame)
    /\ ret = Ok(FALSE)

\* C12: for every frame of 1 byte or more, CalculateChecksum returns the XOR
\* of the bytes at offsets 0..len-2 only, and so never depends on the final
\* byte, frames of 1 byte included.
C12_ChecksumSkipsLastByte ==
    (op = "CalculateChecksum" /\ Len(Frame) >= 1)
    => /\ ~ret.panic
       /\ ret.val = XorAll(SubSeq(Frame, 1, Len(Frame) - 1))

=============================================================================
